---- MODULE Spec2Model ----
(***************************************************************************)
(* NPS pension projection: the NPSCalculator class of                      *)
(*   src/web_nps_calc-v2.py   (variant "v2":   birth date, contribution    *)
(*                             array computed before the corpus loop),     *)
(*   src/unnamed/part_000     (variant "copy": birth date, contribution    *)
(*                             escalated inside the corpus loop),          *)
(*   src/web_nps_calc.py      (variant "slider": current age, closed form).*)
(*                                                                         *)
(* The instance is the record `self` (its __dict__: an attribute that has  *)
(* not been assigned is not in DOMAIN self); `frame` holds the local       *)
(* variables of the running call and `pc` its position; `cache` is the     *)
(* lru_cache of compute().  Spec is the class as the form drives it,       *)
(* SpecDirect the class constructed and reused by another caller,          *)
(* SpecShared the same with other instances using the cache, SpecForm the  *)
(* form from its date of birth to the already-retired check, SpecExport    *)
(* export_to_pdf.                                                          *)
(*                                                                         *)
(* Amounts and rates are Python floats in the source.  They are modelled   *)
(* as exact rationals <<numerator, denominator>> in lowest terms, so an    *)
(* equality of amounts is an equality of the real numbers the code         *)
(* computes; IEEE-754 rounding is not modelled.  Dates are <<y, m, d>>.    *)
(***************************************************************************)
EXTENDS Integers, Sequences, FiniteSets, TLC

VARIABLES variant, self, frame, pc, raised, cache

vars == <<variant, self, frame, pc, raised, cache>>

(***************************************************************************)
(* Exact rational arithmetic (the float operators + - * / ** of the code). *)
(***************************************************************************)
Abs(x) == IF x < 0 THEN -x ELSE x

RECURSIVE GCD(_, _)
GCD(a, b) == IF b = 0 THEN a ELSE GCD(b, a % b)

\* n/d in lowest terms with a positive denominator (d # 0)
Norm(n, d) ==
    LET g == GCD(Abs(n), Abs(d))
        s == IF d < 0 THEN -1 ELSE 1
    IN  <<(s * n) \div g, (s * d) \div g>>

Num(k) == <<k, 1>>
Zero == Num(0)
One == Num(1)

Add(x, y) ==
    LET g == GCD(x[2], y[2])
    IN  Norm(x[1] * (y[2] \div g) + y[1] * (x[2] \div g), (x[2] \div g) * y[2])

Neg(x) == <<-x[1], x[2]>>

Sub(x, y) == Add(x, Neg(y))

Mul(x, y) ==
    LET g1 == GCD(Abs(x[1]), y[2])
        g2 == GCD(Abs(y[1]), x[2])
    IN  Norm((x[1] \div g1) * (y[1] \div g2), (x[2] \div g2) * (y[2] \div g1))

\* x / y; the caller guards y # 0 (Python raises ZeroDivisionError)
Div(x, y) == Mul(x, Norm(y[2], y[1]))

\* x ** k for an integer k, by repeated squaring
RECURSIVE Pow(_, _)
Pow(x, k) ==
    IF k = 0 THEN One
    ELSE IF k < 0 THEN Div(One, Pow(x, -k))
    ELSE LET half == Pow(x, k \div 2)
             square == Mul(half, half)
         IN  IF k % 2 = 1 THEN Mul(square, x) ELSE square

\* int(x) of a float: truncation toward zero
Trunc(x) == IF x[1] >= 0 THEN x[1] \div x[2] ELSE -((-x[1]) \div x[2])

(***************************************************************************)
(* Calendar arithmetic of datetime.date, timedelta and relativedelta.      *)
(***************************************************************************)
IsLeap(y) == (y % 4 = 0) /\ ((y % 100 # 0) \/ (y % 400 = 0))

DaysInMonth(y, m) ==
    IF m = 2 THEN (IF IsLeap(y) THEN 29 ELSE 28)
    ELSE IF m \in {4, 6, 9, 11} THEN 30 ELSE 31

\* date - datetime.timedelta(days=1)
PrevDay(date) ==
    IF date[3] > 1 THEN <<date[1], date[2], date[3] - 1>>
    ELSE IF date[2] > 1
         THEN <<date[1], date[2] - 1, DaysInMonth(date[1], date[2] - 1)>>
         ELSE <<date[1] - 1, 12, 31>>

Min(a, b) == IF a <= b THEN a ELSE b

\* date + relativedelta(months=n), n >= 0: the day is clamped to the month's end
AddMonths(date, n) ==
    LET t == (date[2] - 1) + n
        y == date[1] + (t \div 12)
        m == (t % 12) + 1
    IN  <<y, m, Min(date[3], DaysInMonth(y, m))>>

DateLt(a, b) ==
    \/ a[1] < b[1]
    \/ a[1] = b[1] /\ a[2] < b[2]
    \/ a[1] = b[1] /\ a[2] = b[2] /\ a[3] < b[3]

\* calculate_exact_age one year behind
calculate_exact_age_Lagging(current_date, birth_date) ==
    LET months == (current_date[1] - birth_date[1]) * 12
                      + (current_date[2] - birth_date[2])
    IN  (months \div 12) - 1

\* calculate_exact_age giving the age at the next birthday
calculate_exact_age_NextBirthday(current_date, birth_date) ==
    LET months == (current_date[1] - birth_date[1]) * 12
                      + (current_date[2] - birth_date[2])
        whole  == IF DateLt(current_date, AddMonths(birth_date, months))
                  THEN months - 1 ELSE months
    IN  (whole \div 12) + 1

\* relativedelta(current_date, birth_date).years for birth_date <= current_date:
\* the whole months from birth to today, stepped back while birth + months
\* (day clamped) is still after today, then divided by 12
calculate_exact_age(current_date, birth_date) ==
    LET months == (current_date[1] - birth_date[1]) * 12
                      + (current_date[2] - birth_date[2])
        whole  == IF DateLt(current_date, AddMonths(birth_date, months))
                  THEN months - 1 ELSE months
    IN  whole \div 12

(***************************************************************************)
(* NPSCalculator.compute of the two birth-date variants, piece by piece.   *)
(***************************************************************************)
\* RetirementDate without the roll into January of the next year
RetirementDate_NoYearRoll(birth_date, retirement_age) ==
    LET retirement_year  == birth_date[1] + retirement_age
        retirement_month == birth_date[2]
        next_month == IF retirement_month = 12 THEN 1 ELSE retirement_month + 1
    IN  PrevDay(<<retirement_year, next_month, 1>>)

\* the last day of the birth month in the retirement year: the day before
\* the first of the next month
RetirementDate(birth_date, retirement_age) ==
    LET retirement_year  == birth_date[1] + retirement_age
        retirement_month == birth_date[2]
        next_month == IF retirement_month = 12 THEN 1 ELSE retirement_month + 1
        next_year  == IF retirement_month = 12 THEN retirement_year + 1
                      ELSE retirement_year
    IN  PrevDay(<<next_year, next_month, 1>>)

\* MonthsToRetirement counting only the months whose day has been reached
MonthsToRetirement_DayAware(retirement_date, current_date) ==
    (retirement_date[1] - current_date[1]) * 12
        + (retirement_date[2] - current_date[2])
        - (IF retirement_date[3] < current_date[3] THEN 1 ELSE 0)

\* MonthsToRetirement counting both end months
MonthsToRetirement_Inclusive(retirement_date, current_date) ==
    (retirement_date[1] - current_date[1]) * 12
        + (retirement_date[2] - current_date[2]) + 1

MonthsToRetirement(retirement_date, current_date) ==
    (retirement_date[1] - current_date[1]) * 12
        + (retirement_date[2] - current_date[2])

\* AlreadyRetired letting a month count of zero through
AlreadyRetired_Strict(months_to_retirement) == months_to_retirement < 0

AlreadyRetired(months_to_retirement) == months_to_retirement <= 0

MonthlyRate(annual_return_rate) == Div(annual_return_rate, Num(12))

\* v2: the contribution array is filled before the corpus loop; the
\* contribution escalates at every 12th index except index 0
\* EscalatesBefore without the exception for index 0
EscalatesBefore_AtZero(month) == month % 12 = 0

EscalatesBefore(month) == month % 12 = 0 /\ month # 0

\* current_contribution as stored at index `month` of the array
CurrentContribution(month, current_contribution, annual_increase_rate) ==
    IF EscalatesBefore(month)
    THEN Mul(current_contribution, Add(One, annual_increase_rate))
    ELSE current_contribution

\* copy: the contribution escalates inside the corpus loop, after the month
\* has been recorded
\* EscalatesAfter one month ahead of the anniversary
EscalatesAfter_MonthEarly(month) == month % 12 = 11

EscalatesAfter(month) == month % 12 = 0

NextMonthly(month, monthly, annual_increase_rate) ==
    IF EscalatesAfter(month) THEN Mul(monthly, Add(One, annual_increase_rate))
    ELSE monthly

\* CorpusStep compounding the month's contribution as well
CorpusStep_ContributionFirst(previous, monthly_rate, contribution) ==
    Mul(Add(previous, contribution), Add(One, monthly_rate))

\* CorpusStep without the month's return
CorpusStep_NoReturn(previous, monthly_rate, contribution) ==
    Add(previous, contribution)

\* CorpusStep taking the contribution out of the corpus
CorpusStep_Withdrawn(previous, monthly_rate, contribution) ==
    Sub(Mul(previous, Add(One, monthly_rate)), contribution)

\* corpus_values[month] from corpus_values[month-1]
CorpusStep(previous, monthly_rate, contribution) ==
    Add(Mul(previous, Add(One, monthly_rate)), contribution)

\* StoreMonthly recording whole quarters only
StoreMonthly_QuartersOnly(month, months_to_retirement) == month % 3 = 0

StoreMonthly(month, months_to_retirement) ==
    month % 3 = 0 \/ month = months_to_retirement

\* StoreYearly recording whole years only
StoreYearly_WholeYears(month, months_to_retirement) == month % 12 = 0

StoreYearly(month, months_to_retirement) ==
    month % 12 = 0 \/ month = months_to_retirement

AnnuityCorpus(total_corpus, annuity_ratio) == Mul(total_corpus, annuity_ratio)

\* LumpSum subtracting the ratio from the corpus instead of from one
LumpSum_RatioOffCorpus(total_corpus, annuity_ratio) ==
    Sub(total_corpus, annuity_ratio)

LumpSum(total_corpus, annuity_ratio) ==
    Mul(total_corpus, Sub(One, annuity_ratio))

\* MonthlyPension paying the whole year's annuity every month
MonthlyPension_Yearly(annuity_corpus, annuity_rate) ==
    Mul(annuity_corpus, annuity_rate)

MonthlyPension(annuity_corpus, annuity_rate) ==
    Div(Mul(annuity_corpus, annuity_rate), Num(12))

\* RealMonthlyPension discounting one year too few
RealMonthlyPension_YearShort(monthly_pension, inflation_rate, years_to_retirement) ==
    Div(monthly_pension, Pow(Add(One, inflation_rate), years_to_retirement - 1))

RealMonthlyPension(monthly_pension, inflation_rate, years_to_retirement) ==
    Div(monthly_pension, Pow(Add(One, inflation_rate), years_to_retirement))

\* array[lo] + ... + array[hi - 1], summed pairwise
RECURSIVE SumRange(_, _, _)
SumRange(array, lo, hi) ==
    IF hi <= lo THEN Zero
    ELSE IF hi = lo + 1 THEN array[lo]
    ELSE LET mid == (lo + hi) \div 2
         IN  Add(SumRange(array, lo, mid), SumRange(array, mid, hi))

\* np.sum over a 0-based array of n entries
NpSum(array, n) == SumRange(array, 0, n)

TotalInvestedV2(current_balance, monthly_contributions, months_to_retirement) ==
    Add(current_balance, NpSum(monthly_contributions, months_to_retirement))

\* copy: `for year in range(n)`: twelve contributions per whole year, then the
\* contribution escalates; the result is <<total_invested, monthly>>
RECURSIVE YearBlocks(_, _, _, _)
YearBlocks(total_invested, monthly, n, annual_increase_rate) ==
    IF n = 0 THEN <<total_invested, monthly>>
    ELSE YearBlocks(Add(total_invested, Mul(monthly, Num(12))),
                    Mul(monthly, Add(One, annual_increase_rate)),
                    n - 1, annual_increase_rate)

\* TotalInvestedCopy counting whole years only when there is no increase
TotalInvestedCopy_WholeYears(current_balance, monthly_contribution, annual_increase_rate, months_to_retirement, years) ==
    IF annual_increase_rate = Zero
    THEN Add(current_balance, Mul(monthly_contribution, Num(12 * Trunc(years))))
    ELSE LET blocks == YearBlocks(current_balance, monthly_contribution,
                                  Trunc(years), annual_increase_rate)
         IN  IF months_to_retirement % 12 # 0
             THEN Add(blocks[1], Mul(blocks[2], Num(months_to_retirement % 12)))
             ELSE blocks[1]

\* TotalInvestedCopy adding the partial year at the initial contribution
TotalInvestedCopy_StalePartial(current_balance, monthly_contribution, annual_increase_rate, months_to_retirement, years) ==
    IF annual_increase_rate = Zero
    THEN Add(current_balance, Mul(monthly_contribution, Num(months_to_retirement)))
    ELSE LET blocks == YearBlocks(current_balance, monthly_contribution,
                                  Trunc(years), annual_increase_rate)
         IN  IF months_to_retirement % 12 # 0
             THEN Add(blocks[1], Mul(monthly_contribution,
                                     Num(months_to_retirement % 12)))
             ELSE blocks[1]

TotalInvestedCopy(current_balance, monthly_contribution, annual_increase_rate, months_to_retirement, years) ==
    IF annual_increase_rate = Zero
    THEN Add(current_balance, Mul(monthly_contribution, Num(months_to_retirement)))
    ELSE LET blocks == YearBlocks(current_balance, monthly_contribution,
                                  Trunc(years), annual_increase_rate)
         IN  IF months_to_retirement % 12 # 0
             THEN Add(blocks[1], Mul(blocks[2], Num(months_to_retirement % 12)))
             ELSE blocks[1]

\* Growth with the operands exchanged
Growth_Exchanged(total_corpus, total_invested) ==
    Sub(total_invested, total_corpus)

Growth(total_corpus, total_invested) == Sub(total_corpus, total_invested)

(***************************************************************************)
(* NPSCalculator.compute of the age-slider variant: closed forms.          *)
(***************************************************************************)
FvContributions(monthly_contribution, monthly_rate, months) ==
    Div(Mul(monthly_contribution, Sub(Pow(Add(One, monthly_rate), months), One)),
        monthly_rate)

FvCurrent(current_balance, annual_return_rate, years) ==
    Mul(current_balance, Pow(Add(One, annual_return_rate), years))

TotalInvestedSlider(current_balance, monthly_contribution, months) ==
    Add(Mul(monthly_contribution, Num(months)), current_balance)

(***************************************************************************)
(* Bounds and the inputs drawn within them.                                *)
(***************************************************************************)
\* birth years swept: 1963 .. 1963 + BirthYearSpan
BirthYearSpan == 3
\* longest horizon (months) simulated with a monthly factor of 2
ExactHorizon == 14
\* longest horizon simulated with a monthly factor of 11/10
SmallHorizon == 4
\* longest horizon simulated with an escalating contribution
EscalationHorizon == 60

BirthDates ==
    {b \in (1963..(1963 + BirthYearSpan)) \X (1..12) \X {1, 15, 28, 29, 30, 31} :
        b[3] \in {1, 15, DaysInMonth(b[1], b[2])}}
    \cup {<<1990, 1, 15>>}

\* datetime.date.today()
AsOfDates == {<<2024, 1, 15>>, <<2024, 12, 31>>}

RetirementAges == {60, 61}

DefaultAnnuityRate == <<3, 50>>

Balances == {Zero, One}
Contributions == {Zero, Num(4)}
AnnuityRatios == {Zero, <<2, 5>>, One}
ReturnRates == {Zero, <<6, 5>>, Num(12)}
IncreaseRates == {Zero, <<1, 2>>}
InflationRates == {Zero, <<1, 10>>}

Money ==
    [current_balance : Balances, monthly_contribution : Contributions,
     annuity_ratio : AnnuityRatios, annual_return_rate : ReturnRates,
     annual_increase_rate : IncreaseRates, inflation_rate : InflationRates]

\* the amounts swept over every birth date and as-of date
BaseMoney(m) ==
    /\ m.current_balance = One
    /\ m.monthly_contribution = Num(4)
    /\ m.annuity_ratio = <<2, 5>>
    /\ m.inflation_rate = Zero

\* the dates over which every combination of amounts and rates is swept
KeyDates(birth_date, current_date, retirement_age) ==
    /\ birth_date[3] = 15
    /\ current_date = <<2024, 1, 15>>
    /\ retirement_age = 60

\* the combinations whose exact values stay within TLC's integers
InBounds(birth_date, current_date, retirement_age, m) ==
    LET horizon == (birth_date[1] + retirement_age - current_date[1]) * 12
                       + (birth_date[2] - current_date[2])
        key == KeyDates(birth_date, current_date, retirement_age)
                   /\ horizon <= ExactHorizon
    IN  /\ ~key => BaseMoney(m)
        /\ birth_date[1] = 1990 =>
               KeyDates(birth_date, current_date, retirement_age)
        /\ m.annual_return_rate # Zero => key
        /\ m.annual_return_rate = <<6, 5>> => horizon <= SmallHorizon
        /\ m.annual_increase_rate # Zero => horizon <= EscalationHorizon

SliderAges == {58, 59, 60}

\* the slider's rates: a monthly factor of 3/2 over at most twelve months,
\* of 2 over at most twenty-four
SliderInBounds(current_age, m) ==
    m.annual_return_rate = Num(6) => current_age >= 59

SliderMoney ==
    [current_balance : Balances, monthly_contribution : Contributions,
     annuity_ratio : AnnuityRatios, annual_return_rate : {Num(6), Num(12)},
     annual_increase_rate : {Zero}, inflation_rate : {Zero}]

(***************************************************************************)
(* The state machine.                                                      *)
(***************************************************************************)
NoAttributes == [a \in {} |-> 0]

Init ==
    /\ variant \in {"v2", "copy", "slider"}
    /\ self = NoAttributes
    /\ frame = NoAttributes
    /\ pc = "new"
    /\ raised = "none"
    /\ cache = <<>>

\* the attributes __init__ of the birth-date variants sets from its
\* arguments before it calls compute()
Attributes(birth_date, current_date, retirement_age, m) ==
    [birth_date |-> birth_date,
     current_date |-> current_date,
     current_age |-> calculate_exact_age(current_date, birth_date),
     current_balance |-> m.current_balance,
     monthly_contribution |-> m.monthly_contribution,
     annuity_ratio |-> m.annuity_ratio,
     annual_return_rate |-> m.annual_return_rate,
     annual_increase_rate |-> m.annual_increase_rate,
     retirement_age |-> retirement_age,
     annuity_rate |-> DefaultAnnuityRate,
     yearly_data |-> <<>>,
     monthly_data |-> <<>>]
    @@ (IF variant = "v2"
        THEN [inflation_rate |-> m.inflation_rate]
        ELSE NoAttributes)

\* NPSCalculator.__init__ up to the call of compute(), birth-date variants,
\* with the arguments the form passes
NewCalculator ==
    /\ pc = "new"
    /\ variant \in {"v2", "copy"}
    /\ \E birth_date \in BirthDates, current_date \in AsOfDates,
          retirement_age \in RetirementAges, m \in Money :
        /\ InBounds(birth_date, current_date, retirement_age, m)
        /\ variant = "copy" => m.inflation_rate = Zero
        /\ self' = Attributes(birth_date, current_date, retirement_age, m)
    /\ pc' = "compute"
    /\ UNCHANGED <<variant, frame, raised, cache>>

\* NPSCalculator.__init__ of the age-slider variant
NewSliderCalculator ==
    /\ pc = "new"
    /\ variant = "slider"
    /\ \E current_age \in SliderAges, m \in SliderMoney :
        /\ SliderInBounds(current_age, m)
        /\ self' =
             [current_age |-> current_age,
              current_balance |-> m.current_balance,
              monthly_contribution |-> m.monthly_contribution,
              annuity_ratio |-> m.annuity_ratio,
              annual_return_rate |-> m.annual_return_rate,
              retirement_age |-> 60,
              annuity_rate |-> DefaultAnnuityRate]
    /\ pc' = "compute"
    /\ UNCHANGED <<variant, frame, raised, cache>>

\* self.<name> = <value> for every attribute of attrs
SetAttributes(obj, attrs) == attrs @@ obj

\* compute() of the birth-date variants is decorated with
\* lru_cache(maxsize=1): the cache is keyed on the call's arguments, here
\* the instance alone (no __eq__ or __hash__: its identity), and holds the
\* keys of the calls that returned, most recent first
lru_maxsize == 1

ComputeKey == <<"self">>

Cached(key) == \E i \in 1..Len(cache) : cache[i] = key

CachePut(entries, key) ==
    LET others == SelectSeq(entries, LAMBDA k : k # key)
    IN  SubSeq(<<key>> \o others, 1, Min(Len(others) + 1, lru_maxsize))

compute_enter_StoresBeforeCheck ==
    /\ pc = "compute"
    /\ variant \in {"v2", "copy"}
    /\ ~Cached(ComputeKey)
    /\ LET retirement_date ==
               RetirementDate(self.birth_date, self.retirement_age)
           months_to_retirement ==
               MonthsToRetirement(retirement_date, self.current_date)
           dates == [retirement_date |-> retirement_date,
                     months_to_retirement |-> months_to_retirement]
       IN  /\ self' = SetAttributes(self,
                       [months |-> months_to_retirement,
                        years |-> Norm(months_to_retirement, 12),
                        monthly_rate |-> MonthlyRate(self.annual_return_rate)])
           /\ IF AlreadyRetired(months_to_retirement)
              THEN /\ raised' = "ValueError"
                   /\ pc' = "raised"
                   /\ frame' = dates
              ELSE /\ frame' = dates @@
                          [corpus_values |->
                               [i \in 0..months_to_retirement |->
                                   IF i = 0 THEN self.current_balance ELSE Zero],
                           month |-> IF variant = "v2" THEN 0 ELSE 1] @@
                          (IF variant = "v2"
                           THEN [monthly_contributions |->
                                    [i \in 0..(months_to_retirement - 1) |-> Zero],
                                 current_contribution |-> self.monthly_contribution]
                           ELSE [monthly |-> self.monthly_contribution,
                                 current_date |-> self.current_date])
                   /\ pc' = IF variant = "v2" THEN "contributions" ELSE "loop"
                   /\ UNCHANGED raised
    /\ UNCHANGED <<variant, cache>>

\* compute(), birth-date variants, on a cache miss, from its entry to the
\* head of its first loop: the retirement date, the month count, the
\* already-retired check, the rate and the zeroed arrays
compute_enter ==
    /\ pc = "compute"
    /\ variant \in {"v2", "copy"}
    /\ ~Cached(ComputeKey)
    /\ LET retirement_date ==
               RetirementDate(self.birth_date, self.retirement_age)
           months_to_retirement ==
               MonthsToRetirement(retirement_date, self.current_date)
           dates == [retirement_date |-> retirement_date,
                     months_to_retirement |-> months_to_retirement]
       IN  IF AlreadyRetired(months_to_retirement)
           THEN /\ raised' = "ValueError"
                /\ pc' = "raised"
                /\ frame' = dates
                /\ UNCHANGED self
           ELSE /\ self' = SetAttributes(self,
                       [months |-> months_to_retirement,
                        years |-> Norm(months_to_retirement, 12),
                        monthly_rate |-> MonthlyRate(self.annual_return_rate)])
                /\ frame' = dates @@
                       [corpus_values |->
                            [i \in 0..months_to_retirement |->
                                IF i = 0 THEN self.current_balance ELSE Zero],
                        month |-> IF variant = "v2" THEN 0 ELSE 1] @@
                       (IF variant = "v2"
                        THEN [monthly_contributions |->
                                 [i \in 0..(months_to_retirement - 1) |-> Zero],
                              current_contribution |-> self.monthly_contribution]
                        ELSE [monthly |-> self.monthly_contribution,
                              current_date |-> self.current_date])
                /\ pc' = IF variant = "v2" THEN "contributions" ELSE "loop"
                /\ UNCHANGED raised
    /\ UNCHANGED <<variant, cache>>

\* one iteration of the loop of v2 that fills monthly_contributions; after
\* the last one the corpus loop starts at month 1
compute_contributions_v2 ==
    /\ pc = "contributions"
    /\ variant = "v2"
    /\ frame.month < frame.months_to_retirement
    /\ LET month == frame.month
           current_contribution ==
               CurrentContribution(month, frame.current_contribution,
                                   self.annual_increase_rate)
           last == month + 1 = frame.months_to_retirement
       IN  /\ frame' = [frame EXCEPT
                          !.current_contribution = current_contribution,
                          !.monthly_contributions[month] = current_contribution,
                          !.month = IF last THEN 1 ELSE month + 1]
           /\ pc' = IF last THEN "loop" ELSE "contributions"
    /\ UNCHANGED <<variant, self, raised, cache>>

\* the snapshots appended in one iteration of the corpus loop
Recorded(obj, month, months_to_retirement, date, value) ==
    [obj EXCEPT
        !.monthly_data = IF StoreMonthly(month, months_to_retirement)
                         THEN Append(@, <<date, value>>) ELSE @,
        !.yearly_data = IF StoreYearly(month, months_to_retirement)
                        THEN Append(@, <<date, value>>) ELSE @]

\* one iteration of the corpus loop of v2
compute_loop_v2 ==
    /\ pc = "loop"
    /\ variant = "v2"
    /\ frame.month <= frame.months_to_retirement
    /\ LET month == frame.month
           value == CorpusStep(frame.corpus_values[month - 1], self.monthly_rate,
                               frame.monthly_contributions[month - 1])
           current_date == AddMonths(self.current_date, month)
       IN  /\ frame' = [frame EXCEPT !.corpus_values[month] = value,
                                     !.month = month + 1]
           /\ self' = Recorded(self, month, frame.months_to_retirement,
                               current_date, value)
    /\ UNCHANGED <<variant, pc, raised, cache>>

\* one iteration of the corpus loop of the copy
compute_loop_copy ==
    /\ pc = "loop"
    /\ variant = "copy"
    /\ frame.month <= frame.months_to_retirement
    /\ LET month == frame.month
           value == CorpusStep(frame.corpus_values[month - 1], self.monthly_rate,
                               frame.monthly)
           current_date == AddMonths(frame.current_date, 1)
       IN  /\ frame' = [frame EXCEPT
                          !.corpus_values[month] = value,
                          !.current_date = current_date,
                          !.monthly = NextMonthly(month, frame.monthly,
                                                  self.annual_increase_rate),
                          !.month = month + 1]
           /\ self' = Recorded(self, month, frame.months_to_retirement,
                               current_date, value)
    /\ UNCHANGED <<variant, pc, raised, cache>>

\* the attributes both birth-date variants derive from the final corpus
Split(obj, total_corpus, retirement_date) ==
    LET annuity_corpus == AnnuityCorpus(total_corpus, obj.annuity_ratio)
    IN  [total_corpus |-> total_corpus,
         retirement_date |-> retirement_date,
         annuity_corpus |-> annuity_corpus,
         lump_sum |-> LumpSum(total_corpus, obj.annuity_ratio),
         monthly_pension |-> MonthlyPension(annuity_corpus, obj.annuity_rate)]

\* compute() of v2 after the corpus loop
compute_derive_v2 ==
    /\ pc = "loop"
    /\ variant = "v2"
    /\ frame.month > frame.months_to_retirement
    /\ LET total_corpus == frame.corpus_values[frame.months_to_retirement]
           split == Split(self, total_corpus, frame.retirement_date)
           years_to_retirement == self.retirement_age - self.current_age
           total_invested == TotalInvestedV2(self.current_balance,
                                 frame.monthly_contributions,
                                 frame.months_to_retirement)
       IN  self' = SetAttributes(self, split @@
                     [real_monthly_pension |->
                          RealMonthlyPension(split.monthly_pension,
                              self.inflation_rate, years_to_retirement),
                      total_invested |-> total_invested,
                      growth |-> Growth(total_corpus, total_invested)])
    /\ pc' = "done"
    /\ cache' = CachePut(cache, ComputeKey)
    /\ UNCHANGED <<variant, frame, raised>>

\* compute() of the copy after the corpus loop
compute_derive_copy ==
    /\ pc = "loop"
    /\ variant = "copy"
    /\ frame.month > frame.months_to_retirement
    /\ LET total_corpus == frame.corpus_values[frame.months_to_retirement]
           total_invested == TotalInvestedCopy(self.current_balance,
                                 self.monthly_contribution,
                                 self.annual_increase_rate,
                                 frame.months_to_retirement, self.years)
       IN  self' = SetAttributes(self,
                     Split(self, total_corpus, frame.retirement_date) @@
                     [total_invested |-> total_invested,
                      growth |-> Growth(total_corpus, total_invested)])
    /\ pc' = "done"
    /\ cache' = CachePut(cache, ComputeKey)
    /\ UNCHANGED <<variant, frame, raised>>

\* compute() of the age-slider variant
compute_slider ==
    /\ pc = "compute"
    /\ variant = "slider"
    /\ LET years == self.retirement_age - self.current_age
           months == years * 12
           monthly_rate == MonthlyRate(self.annual_return_rate)
           fv_contributions == FvContributions(self.monthly_contribution,
                                               monthly_rate, months)
           fv_current == FvCurrent(self.current_balance,
                                   self.annual_return_rate, years)
           total_corpus == Add(fv_contributions, fv_current)
           annuity_corpus == AnnuityCorpus(total_corpus, self.annuity_ratio)
           total_invested == TotalInvestedSlider(self.current_balance,
                                 self.monthly_contribution, months)
       IN  self' = SetAttributes(self,
                     [years |-> years,
                      months |-> months,
                      monthly_rate |-> monthly_rate,
                      fv_contributions |-> fv_contributions,
                      fv_current |-> fv_current,
                      total_corpus |-> total_corpus,
                      annuity_corpus |-> annuity_corpus,
                      lump_sum |-> LumpSum(total_corpus, self.annuity_ratio),
                      monthly_pension |->
                          MonthlyPension(annuity_corpus, self.annuity_rate),
                      total_invested |-> total_invested,
                      growth |-> Growth(total_corpus, total_invested)])
    /\ pc' = "done"
    /\ UNCHANGED <<variant, frame, raised, cache>>

\* round(x * scale) to the nearest integer, a tie to the even one: the digits
\* a fixed-point format keeps
RoundHalfEven(x, scale) ==
    LET scaled == Mul(x, Num(scale))
        floor == scaled[1] \div scaled[2]
        rest == scaled[1] % scaled[2]
    IN  IF 2 * rest < scaled[2] THEN floor
        ELSE IF 2 * rest > scaled[2] THEN floor + 1
        ELSE IF floor % 2 = 0 THEN floor ELSE floor + 1

\* f"{x:.2f}": the text is determined by the number of hundredths it shows
Format2(x) == RoundHalfEven(x, 100)

\* the "Corpus Value" cell: crores, lakhs or plain rupees with two decimals
\* (a value is at least a whole number exactly when its floor is)
FormatCorpus(value) ==
    IF value[1] \div value[2] >= 10000000
    THEN [unit |-> "Cr", hundredths |-> Format2(Div(value, Num(10000000)))]
    ELSE IF value[1] \div value[2] >= 100000
         THEN [unit |-> "L", hundredths |-> Format2(Div(value, Num(100000)))]
         ELSE [unit |-> "", hundredths |-> Format2(value)]

\* one row of the table, from one (date, value) entry of yearly_data
TableRow(entry) ==
    LET date == entry[1]
        value == entry[2]
        years_contributed == date[1] - self.current_date[1]
        current_monthly_contribution ==
            Mul(self.monthly_contribution,
                Pow(Add(One, self.annual_increase_rate), years_contributed))
    IN  [Year |-> date[1],
         Age |-> self.current_age + years_contributed,
         CorpusValue |-> FormatCorpus(value),
         MonthlyContribution |-> Format2(current_monthly_contribution)]

\* the positions (from 1) of the entries of yearly_data the table shows:
\* all of them, or every step-th from the first and then the last one if
\* the steps did not end on it
TableIndices(show_all_years, n) ==
    IF show_all_years THEN [j \in 1..n |-> j]
    ELSE LET step == IF n \div 10 > 1 THEN n \div 10 ELSE 1
             stepped == [j \in 1..((n + step - 1) \div step) |->
                            (j - 1) * step + 1]
         IN  IF n > 0 /\ (n - 1) % step # 0
             THEN Append(stepped, n)
             ELSE stepped

\* NPSCalculator.generate_detailed_table(show_all_years), called by the
\* page on the calculator it has constructed
generate_detailed_table ==
    /\ pc = "done"
    /\ variant \in {"v2", "copy"}
    /\ \E show_all_years \in BOOLEAN :
        LET indices == TableIndices(show_all_years, Len(self.yearly_data))
            table_data ==
                [j \in 1..Len(indices) |->
                    TableRow(self.yearly_data[indices[j]])]
        IN  frame' = [show_all_years |-> show_all_years,
                      table_data |-> table_data] @@ frame
    /\ pc' = "tabled"
    /\ UNCHANGED <<variant, self, raised, cache>>

Next ==
    \/ NewCalculator
    \/ NewSliderCalculator
    \/ compute_enter
    \/ compute_contributions_v2
    \/ compute_loop_v2
    \/ compute_loop_copy
    \/ compute_derive_v2
    \/ compute_derive_copy
    \/ compute_slider
    \/ generate_detailed_table

Spec == Init /\ [][Next]_vars

(***************************************************************************)
(* The class used by a caller other than the form: __init__ takes any      *)
(* numbers, the attributes are public and compute() is a public method.    *)
(***************************************************************************)
\* birth dates 0 .. SmallHorizon months and 13 months from retirement
DirectBirthDates ==
    {<<1964, 1 + h, 15>> : h \in 0..SmallHorizon} \cup {<<1965, 2, 15>>}

DirectMoney ==
    [current_balance : {Num(-1), Zero, One},
     monthly_contribution : {Num(-4), Zero, Num(4)},
     annuity_ratio : {<<-2, 5>>, Zero, <<2, 5>>, <<3, 2>>},
     annual_return_rate : {<<-3, 5>>, Zero, Num(12)},
     annual_increase_rate : IncreaseRates,
     inflation_rate : {Zero}]

\* a monthly factor of 19/20 over at most SmallHorizon months
DirectInBounds(birth_date, m) ==
    m.annual_return_rate = <<-3, 5>> => birth_date[1] = 1964

\* NPSCalculator(...) called with arguments no widget range has screened
NewCalculatorDirect ==
    /\ pc = "new"
    /\ variant \in {"v2", "copy"}
    /\ \E birth_date \in DirectBirthDates, m \in DirectMoney :
        /\ DirectInBounds(birth_date, m)
        /\ self' = Attributes(birth_date, <<2024, 1, 15>>, 60, m)
    /\ pc' = "compute"
    /\ UNCHANGED <<variant, frame, raised, cache>>

AssignableValues ==
    [annuity_ratio |-> {<<2, 5>>, One},
     monthly_contribution |-> {Zero, Num(4)}]

\* calc.<name> = <value> on an instance whose compute() has returned; the
\* locals of that finished call are gone
AssignField ==
    /\ pc \in {"done", "assigned"}
    /\ variant \in {"v2", "copy"}
    /\ \E name \in DOMAIN AssignableValues :
         \E value \in AssignableValues[name] :
            /\ self[name] # value
            /\ self' = [self EXCEPT ![name] = value]
    /\ frame' = NoAttributes
    /\ pc' = "assigned"
    /\ UNCHANGED <<variant, raised, cache>>

\* calc.compute() called again on the instance
call_compute ==
    /\ pc \in {"done", "assigned"}
    /\ variant \in {"v2", "copy"}
    /\ frame' = NoAttributes
    /\ pc' = "compute"
    /\ UNCHANGED <<variant, self, raised, cache>>

\* compute() on a cache hit: the wrapper returns the cached None and the
\* body does not run
compute_cached ==
    /\ pc = "compute"
    /\ variant \in {"v2", "copy"}
    /\ Cached(ComputeKey)
    /\ cache' = CachePut(cache, ComputeKey)
    /\ pc' = "done"
    /\ UNCHANGED <<variant, self, frame, raised>>

NextDirect ==
    \/ NewCalculatorDirect
    \/ compute_enter
    \/ compute_contributions_v2
    \/ compute_loop_v2
    \/ compute_loop_copy
    \/ compute_derive_v2
    \/ compute_derive_copy
    \/ AssignField
    \/ call_compute
    \/ compute_cached

SpecDirect == Init /\ [][NextDirect]_vars

(***************************************************************************)
(* The form's date of birth: three number inputs and the date built from   *)
(* them.                                                                   *)
(***************************************************************************)
(* Several calculators alive in one process.  compute is one function      *)
(* object on the class, so its lru_cache is one cache for every instance;  *)
(* of a second calculator this instance can observe only the key it puts   *)
(* into that cache.                                                        *)
(***************************************************************************)
\* how many times the body of compute() is let run on the instance
MaxBodyRuns == 2

\* the cache key of a compute() call on another instance
OtherKey == <<"other">>

\* the snapshots one run of the body appends to yearly_data
YearlyPerRun == (self.months + 11) \div 12

\* NPSCalculator(...) constructed elsewhere in the process, or compute()
\* called on such an instance: its body runs and the call returns, and the
\* cache takes its key in place of the least recently used one
other_instance_compute ==
    /\ pc = "done"
    /\ variant \in {"v2", "copy"}
    /\ Len(self.yearly_data) < MaxBodyRuns * YearlyPerRun
    /\ cache' = CachePut(cache, OtherKey)
    /\ UNCHANGED <<variant, self, frame, pc, raised>>

NextShared ==
    \/ NewCalculatorDirect
    \/ compute_enter
    \/ compute_contributions_v2
    \/ compute_loop_v2
    \/ compute_loop_copy
    \/ compute_derive_v2
    \/ compute_derive_copy
    \/ call_compute
    \/ compute_cached
    \/ other_instance_compute

SpecShared == Init /\ [][NextShared]_vars

(***************************************************************************)
\* the years of the year input that are swept (the widget runs 1940..today)
FormYears == 1963..(1963 + BirthYearSpan)

\* datetime.date(year, month, day) raises ValueError unless the day exists
ValidDate(year, month, day) ==
    /\ month \in 1..12
    /\ day \in 1..DaysInMonth(year, month)

\* the day the except branch falls back to
ClampedDay(month, day) ==
    Min(day, IF month = 2 THEN 28
             ELSE IF month \in {4, 6, 9, 11} THEN 30 ELSE 31)

InitForm ==
    /\ variant \in {"v2", "copy"}
    /\ self = NoAttributes
    /\ frame = NoAttributes
    /\ pc = "form"
    /\ raised = "none"
    /\ cache = <<>>

\* the three number inputs, kept by the form under the keys dob_day,
\* dob_month and dob_year
dob_inputs ==
    /\ pc = "form"
    /\ \E day \in 1..31, month \in 1..12, year \in FormYears :
         frame' = [dob_day |-> day, dob_month |-> month, dob_year |-> year,
                   day |-> day, month |-> month, year |-> year]
    /\ pc' = "date"
    /\ UNCHANGED <<variant, self, raised, cache>>

\* try: birth_date = date(year, month, day); except ValueError: clamp the
\* day and build the date again, outside any handler
build_birth_date ==
    /\ pc = "date"
    /\ IF ValidDate(frame.year, frame.month, frame.day)
       THEN /\ frame' = [birth_date |-> <<frame.year, frame.month, frame.day>>]
                            @@ frame
            /\ pc' = "collected"
            /\ UNCHANGED raised
       ELSE LET day == ClampedDay(frame.month, frame.day)
            IN  IF ValidDate(frame.year, frame.month, day)
                THEN /\ frame' = [birth_date |-> <<frame.year, frame.month, day>>,
                                  day |-> day] @@ frame
                     /\ pc' = "collected"
                     /\ UNCHANGED raised
                ELSE /\ frame' = [day |-> day] @@ frame
                     /\ pc' = "raised"
                     /\ raised' = "ValueError"
    /\ UNCHANGED <<variant, self, cache>>

\* datetime.date.today() on the day the form is submitted
FormToday == AsOfDates \cup {<<2025, 2, 28>>}

\* the "Retirement Age" input
FormRetirementAges == RetirementAges \cup {62}

\* the amount and percentage inputs of the form
FormInputs ==
    [current_balance : {Zero}, monthly_contribution : {Zero, Num(4)},
     annuity_ratio : {Num(40)}, annual_return_rate : {Num(10)},
     annual_increase : {Num(5)}, inflation_rate : {Num(5)}]

\* the arguments the handler passes: the percentages divided by 100
FormArguments(inputs) ==
    [current_balance |-> inputs.current_balance,
     monthly_contribution |-> inputs.monthly_contribution,
     annuity_ratio |-> Div(inputs.annuity_ratio, Num(100)),
     annual_return_rate |-> Div(inputs.annual_return_rate, Num(100)),
     annual_increase_rate |-> Div(inputs.annual_increase, Num(100)),
     inflation_rate |-> Div(inputs.inflation_rate, Num(100))]

\* v2, "if submitted:": the whole-year age today is compared with the
\* retirement age; the page stops there, or NPSCalculator.__init__ runs up
\* to its call of compute()
submit_v2 ==
    /\ pc = "collected"
    /\ variant = "v2"
    /\ \E current_date \in FormToday, retirement_age \in FormRetirementAges,
          inputs \in FormInputs :
        LET age == calculate_exact_age(current_date, frame.birth_date)
        IN  IF retirement_age <= age
            THEN /\ frame' = [age |-> age, retirement_age |-> retirement_age,
                              current_date |-> current_date] @@ frame
                 /\ pc' = "stopped"
                 /\ UNCHANGED self
            ELSE /\ self' = Attributes(frame.birth_date, current_date,
                                       retirement_age, FormArguments(inputs))
                 /\ frame' = [age |-> age] @@ frame
                 /\ pc' = "compute"
    /\ UNCHANGED <<variant, raised, cache>>

\* copy, "if submitted:": NPSCalculator.__init__ runs at once
submit_copy ==
    /\ pc = "collected"
    /\ variant = "copy"
    /\ \E current_date \in FormToday, retirement_age \in FormRetirementAges,
          inputs \in FormInputs :
        self' = Attributes(frame.birth_date, current_date, retirement_age,
                           FormArguments(inputs))
    /\ pc' = "compute"
    /\ UNCHANGED <<variant, frame, raised, cache>>

\* "except ValueError as e: st.error(str(e))" around the construction
show_error ==
    /\ pc = "raised"
    /\ raised = "ValueError"
    /\ "months_to_retirement" \in DOMAIN frame
    /\ frame' = [error |-> "You have already reached or passed retirement age"]
                    @@ frame
    /\ pc' = "error_shown"
    /\ raised' = "none"
    /\ UNCHANGED <<variant, self, cache>>

NextForm ==
    \/ dob_inputs
    \/ build_birth_date
    \/ submit_v2
    \/ submit_copy
    \/ compute_enter
    \/ show_error

SpecForm == InitForm /\ [][NextForm]_vars

(***************************************************************************)
(* export_to_pdf.  A text is the sequence of its code points; FPDF is taken *)
(* to hand back, from output(dest='S'), the text it was given.  The value   *)
(* texts of the birth-date variants come from string attributes of the      *)
(* instance; those of the age-slider variant are formatted numbers.         *)
(***************************************************************************)
\* longest item value text
MaxTextLen == 3

\* 'R', a-circumflex, superscript one (all latin-1), the low quotation
\* mark, the euro sign and the rupee sign (none of them latin-1)
ExportAlphabet == {82, 226, 185, 8218, 8364, 8377}

\* the digit '1'
NumberAlphabet == {49}

Texts(alphabet) ==
    UNION {[1..n -> alphabet] : n \in 0..MaxTextLen}

\* the text the except branch replaces by 'Rs.'
CurrencyGlyph ==
    IF variant = "v2" THEN <<8377>> ELSE <<226, 8218, 185>>

RsText == <<82, 115, 46>>

\* str.replace(old, new): every occurrence, leftmost first
RECURSIVE Replace(_, _, _)
Replace(text, old, new) ==
    IF Len(text) < Len(old) THEN text
    ELSE IF SubSeq(text, 1, Len(old)) = old
         THEN new \o Replace(SubSeq(text, Len(old) + 1, Len(text)), old, new)
         ELSE <<Head(text)>> \o Replace(Tail(text), old, new)

\* "{key}: {value}" of one item
ItemLine(value) == <<75, 58, 32>> \o value

\* str.encode('latin-1') succeeds when every code point is below 256, and
\* then gives one byte per code point
Latin1Encodable(text) == \A i \in 1..Len(text) : text[i] < 256

EncodeLatin1(text) == [i \in 1..Len(text) |-> text[i] % 256]

InitExport ==
    /\ variant \in {"v2", "copy", "slider"}
    /\ self = NoAttributes
    /\ frame = NoAttributes
    /\ pc = "export"
    /\ raised = "none"
    /\ cache = <<>>

\* export_to_pdf up to the encoding: the items and the rendered document
export_render ==
    /\ pc = "export"
    /\ \E value \in Texts(IF variant = "slider" THEN NumberAlphabet
                          ELSE ExportAlphabet) :
         frame' = [items |-> value, document |-> ItemLine(value)]
    /\ pc' = "encode"
    /\ UNCHANGED <<variant, self, raised, cache>>

\* pdf.output(dest='S').encode('latin-1') inside try (birth-date variants)
export_encode ==
    /\ pc = "encode"
    /\ variant \in {"v2", "copy"}
    /\ IF Latin1Encodable(frame.document)
       THEN /\ frame' = [pdf_output |-> EncodeLatin1(frame.document)] @@ frame
            /\ pc' = "exported"
       ELSE /\ pc' = "fallback"
            /\ UNCHANGED frame
    /\ UNCHANGED <<variant, self, raised, cache>>

\* the except UnicodeEncodeError branch: the document rendered again with
\* the glyph replaced, and encoded outside any handler
export_fallback ==
    /\ pc = "fallback"
    /\ LET safe_value == Replace(frame.items, CurrencyGlyph, RsText)
           document == ItemLine(safe_value)
       IN  IF Latin1Encodable(document)
           THEN /\ frame' = [pdf_output |-> EncodeLatin1(document),
                             document |-> document] @@ frame
                /\ pc' = "exported"
                /\ UNCHANGED raised
           ELSE /\ frame' = [document |-> document] @@ frame
                /\ pc' = "raised"
                /\ raised' = "UnicodeEncodeError"
    /\ UNCHANGED <<variant, self, cache>>

\* pdf.output(dest='S').encode('latin-1') of the age-slider variant, in no
\* try block
export_encode_slider ==
    /\ pc = "encode"
    /\ variant = "slider"
    /\ IF Latin1Encodable(frame.document)
       THEN /\ frame' = [pdf_output |-> EncodeLatin1(frame.document)] @@ frame
            /\ pc' = "exported"
            /\ UNCHANGED raised
       ELSE /\ pc' = "raised"
            /\ raised' = "UnicodeEncodeError"
            /\ UNCHANGED frame
    /\ UNCHANGED <<variant, self, cache>>

NextExport ==
    \/ export_render
    \/ export_encode
    \/ export_fallback
    \/ export_encode_slider

SpecExport == InitExport /\ [][NextExport]_vars

(***************************************************************************)
(* Properties.                                                             *)
(***************************************************************************)
DateVariant == variant \in {"v2", "copy"}

\* compute() has evaluated the retirement date and the month count
Dated == DateVariant /\ "months_to_retirement" \in DOMAIN frame

\* the last day of a month, by the calendar's rule
ExpectedLastDay(year, month) ==
    CASE month \in {1, 3, 5, 7, 8, 10, 12} -> 31
      [] month \in {4, 6, 9, 11} -> 30
      [] month = 2 ->
            IF year % 400 = 0 \/ (year % 4 = 0 /\ year % 100 # 0) THEN 29 ELSE 28

\* the contribution of month m >= 1: the initial one, escalated once per
\* whole year completed before month m
ExpectedContribution(m) ==
    Mul(self.monthly_contribution,
        Pow(Add(One, self.annual_increase_rate), (m - 1) \div 12))

\* C1: the retirement date compute() evaluates, and stores on success, is the
\* last calendar day of the birth month in the year birth year + retirement
\* age: 31 December of that same year for a December birth, 29 February
\* exactly in a leap year
C1_RetirementDate ==
    Dated =>
        LET year == self.birth_date[1] + self.retirement_age
            month == self.birth_date[2]
            expected == <<year, month, ExpectedLastDay(year, month)>>
        IN  /\ frame.retirement_date = expected
            /\ "retirement_date" \in DOMAIN self
                   => self.retirement_date = expected

C1_Witness ==
    /\ pc = "done"
    /\ DateVariant
    /\ self.birth_date[2] = 2
    /\ self.retirement_date = <<2024, 2, 29>>

\* C2: months_to_retirement is the whole-month difference between the
\* retirement date and the as-of date, and depends on neither date's day of
\* the month: it is the month difference of the birth month in the
\* retirement year and the as-of month
C2_MonthsToRetirement ==
    Dated =>
        /\ frame.months_to_retirement =
               (frame.retirement_date[1] - self.current_date[1]) * 12
                   + (frame.retirement_date[2] - self.current_date[2])
        /\ frame.months_to_retirement =
               (self.birth_date[1] + self.retirement_age - self.current_date[1]) * 12
                   + (self.birth_date[2] - self.current_date[2])
        /\ "months" \in DOMAIN self => self.months = frame.months_to_retirement

C2_Witness ==
    /\ pc = "done"
    /\ DateVariant
    /\ self.current_date[3] = 31
    /\ self.birth_date[3] = 1
    /\ self.months = 12

\* C3: in the birth-date variants a month count <= 0 makes compute() raise
\* the already-retired error with yearly_data and monthly_data still empty,
\* and a month count > 0 never raises it
C3_AlreadyRetired ==
    Dated =>
        /\ frame.months_to_retirement <= 0 =>
               /\ raised = "ValueError"
               /\ pc = "raised"
               /\ self.yearly_data = <<>>
               /\ self.monthly_data = <<>>
        /\ frame.months_to_retirement > 0 => raised = "none" /\ pc # "raised"

C3_Witness ==
    /\ pc = "raised"
    /\ DateVariant
    /\ frame.months_to_retirement = 0
    /\ self.monthly_data = <<>>

\* the end-to-end scenario: born 1990-01-15, retirement age 60, as of 2024-01-15
C4_Scenario ==
    /\ Dated
    /\ self.birth_date = <<1990, 1, 15>>
    /\ self.retirement_age = 60
    /\ self.current_date = <<2024, 1, 15>>

\* C4 as stated: in the scenario months_to_retirement is 372
C4_Original == C4_Scenario => frame.months_to_retirement = 372

\* C4 (amended): in the scenario months_to_retirement is 312, the 26 years
\* from January 2024 to January 2050 times 12
C4_ScenarioMonths ==
    C4_Scenario =>
        /\ frame.months_to_retirement = 312
        /\ "months" \in DOMAIN self => self.months = 312

C4_Witness == C4_Scenario /\ pc = "done" /\ self.months = 312

C6_Escalation ==
    /\ (variant = "v2" /\ pc = "done") =>
           \A m \in 1..frame.months_to_retirement :
               frame.monthly_contributions[m - 1] = ExpectedContribution(m)
    /\ (variant = "copy" /\ pc \in {"loop", "done"}) =>
           frame.monthly = ExpectedContribution(frame.month)

C6_Witness ==
    /\ variant = "v2"
    /\ pc = "done"
    /\ self.months >= 25
    /\ self.monthly_contribution = Num(4)
    /\ frame.monthly_contributions[11] = Num(4)
    /\ frame.monthly_contributions[12] = Num(6)
    /\ frame.monthly_contributions[23] = Num(6)
    /\ frame.monthly_contributions[24] = Num(9)

\* C7: in all three variants annuity_corpus = total_corpus * annuity_ratio,
\* lump_sum = total_corpus * (1 - annuity_ratio), and the two add up to
\* total_corpus
C7_Split ==
    pc = "done" =>
        /\ self.annuity_corpus = Mul(self.total_corpus, self.annuity_ratio)
        /\ self.lump_sum = Mul(self.total_corpus, Sub(One, self.annuity_ratio))
        /\ Add(self.annuity_corpus, self.lump_sum) = self.total_corpus

C7_Witness ==
    /\ pc = "done"
    /\ variant = "slider"
    /\ self.annuity_ratio = <<2, 5>>
    /\ self.total_corpus # Zero
    /\ self.lump_sum # Zero

\* C8: in every variant growth = total_corpus - total_invested
C8_Growth ==
    pc = "done" =>
        self.growth = Sub(self.total_corpus, self.total_invested)

C8_Witness ==
    /\ pc = "done"
    /\ variant = "copy"
    /\ self.growth # Zero
    /\ self.total_invested # Zero

AddedToCorpus ==
    [i \in 0..(frame.months_to_retirement - 1) |->
        Sub(frame.corpus_values[i + 1],
            Mul(frame.corpus_values[i], Add(One, self.monthly_rate)))]

\* C10: total_invested is current_balance plus the sum over all months of
\* the contribution added to the corpus in that month, for every
\* annual_increase_rate; the copy's year blocks plus partial year give that
\* sum as well
C10_InvestedIsSumOfContributions ==
    (pc = "done" /\ DateVariant) =>
        self.total_invested =
            Add(self.current_balance,
                SumRange(AddedToCorpus, 0, frame.months_to_retirement))

C10_Witness ==
    /\ pc = "done"
    /\ variant = "copy"
    /\ self.annual_increase_rate # Zero
    /\ self.months > 12
    /\ self.months % 12 # 0
    /\ self.monthly_contribution # Zero
    /\ self.annual_return_rate # Zero

\* C11: in every variant monthly_pension = annuity_corpus * annuity_rate / 12,
\* that is total_corpus * annuity_ratio * annuity_rate / 12, with the
\* annuity rate at its default 0.06, and an annuity_ratio of 0 gives a
\* monthly pension of 0
C11_MonthlyPension ==
    pc = "done" =>
        /\ self.annuity_rate = Div(Num(6), Num(100))
        /\ Mul(self.monthly_pension, Num(12)) =
               Mul(self.annuity_corpus, self.annuity_rate)
        /\ Mul(self.monthly_pension, Num(12)) =
               Mul(Mul(self.total_corpus, self.annuity_ratio),
                   Div(Num(6), Num(100)))
        /\ self.annuity_ratio = Zero => self.monthly_pension = Zero

C11_Witness ==
    /\ pc = "done"
    /\ variant = "v2"
    /\ self.annuity_ratio = <<2, 5>>
    /\ self.total_corpus = Num(4)
    /\ self.monthly_pension = <<1, 125>>

\* the whole-year age on the as-of date: the year difference, less one while
\* the birthday of the as-of year (moved to the last day of its month when
\* the day does not exist there) is still ahead
WholeYearAge(current_date, birth_date) ==
    LET birthday == Min(birth_date[3], DaysInMonth(current_date[1], birth_date[2]))
        ahead == \/ current_date[2] < birth_date[2]
                 \/ current_date[2] = birth_date[2] /\ current_date[3] < birthday
    IN  current_date[1] - birth_date[1] - (IF ahead THEN 1 ELSE 0)

\* C12: in v2 real_monthly_pension times
\* (1 + inflation_rate)^(retirement_age - current_age) is monthly_pension,
\* current_age being the whole-year age on the as-of date, and with
\* inflation_rate = 0 the real pension is the nominal one
C12_RealPension ==
    (pc = "done" /\ variant = "v2") =>
        /\ self.current_age = WholeYearAge(self.current_date, self.birth_date)
        /\ Mul(self.real_monthly_pension,
               Pow(Add(One, self.inflation_rate),
                   self.retirement_age - self.current_age))
               = self.monthly_pension
        /\ self.inflation_rate = Zero =>
               self.real_monthly_pension = self.monthly_pension

C12_Witness ==
    /\ pc = "done"
    /\ variant = "v2"
    /\ self.inflation_rate = <<1, 10>>
    /\ self.retirement_age - self.current_age >= 2
    /\ self.monthly_pension # Zero
    /\ self.real_monthly_pension # self.monthly_pension

\* x <= y for rationals
Leq(x, y) == Sub(y, x)[1] >= 0

\* the values of a recorded trajectory never go down
NonDecreasing(data) ==
    \A i \in 1..(Len(data) - 1) : Leq(data[i][2], data[i + 1][2])

\* C13: with current_balance, monthly_contribution, annual_increase_rate
\* and annual_return_rate all >= 0, corpus[m] >= corpus[m-1] for every
\* simulated month m, and the values recorded in yearly_data and
\* monthly_data never go down
C13_Monotone ==
    (/\ pc = "done"
     /\ DateVariant
     /\ Leq(Zero, self.current_balance)
     /\ Leq(Zero, self.monthly_contribution)
     /\ Leq(Zero, self.annual_increase_rate)
     /\ Leq(Zero, self.annual_return_rate)) =>
        /\ \A m \in 1..frame.months_to_retirement :
               Leq(frame.corpus_values[m - 1], frame.corpus_values[m])
        /\ NonDecreasing(self.yearly_data)
        /\ NonDecreasing(self.monthly_data)

C13_Witness ==
    /\ pc = "done"
    /\ DateVariant
    /\ self.months >= 13
    /\ self.annual_return_rate # Zero
    /\ self.monthly_contribution # Zero
    /\ Len(self.yearly_data) >= 2
    /\ self.yearly_data[1][2] # self.yearly_data[2][2]
    /\ Leq(self.yearly_data[1][2], self.yearly_data[2][2])

\* the months up to `month` at which a yearly snapshot is due
YearlyDue(month, M) == {m \in 1..month : m % 12 = 0 \/ m = M}

\* C20: a yearly snapshot is recorded at month m exactly when m % 12 = 0 or
\* m = M, M the months to retirement: while the loop runs yearly_data has
\* one entry per such month simulated so far, and at the end it has
\* ceil(M/12) entries, entry k <= floor(M/12) holding corpus[12k], the last
\* entry holding corpus[M], which is total_corpus; a final month that is a
\* multiple of 12 is recorded once
C20_YearlySnapshots ==
    (DateVariant /\ pc \in {"loop", "done"}) =>
        LET M == frame.months_to_retirement
            yearly_data == self.yearly_data
        IN  /\ Len(yearly_data) = Cardinality(YearlyDue(frame.month - 1, M))
            /\ pc = "done" =>
                   /\ Len(yearly_data) = (M + 11) \div 12
                   /\ \A k \in 1..(M \div 12) :
                          yearly_data[k][2] = frame.corpus_values[12 * k]
                   /\ yearly_data[Len(yearly_data)][2] = frame.corpus_values[M]
                   /\ yearly_data[Len(yearly_data)][2] = self.total_corpus
                   /\ M % 12 = 0 => Len(yearly_data) = M \div 12

C20_Witness ==
    /\ pc = "done"
    /\ DateVariant
    /\ self.months = 24
    /\ Len(self.yearly_data) = 2
    /\ self.yearly_data[2][2] = self.total_corpus
    /\ self.yearly_data[1][2] # self.total_corpus

\* C18: the age-slider variant too rejects a month count <= 0 (current_age
\* >= retirement_age) with the already-retired error and produces no
\* summary amounts
C18_SliderAlreadyRetired ==
    (/\ variant = "slider"
     /\ pc \notin {"new", "compute"}
     /\ (self.retirement_age - self.current_age) * 12 <= 0) =>
        /\ raised = "ValueError"
        /\ "total_corpus" \notin DOMAIN self

\* a compute() body has run to its end on inputs within the domain the
\* monotonicity statements assume, and its locals are at hand
C14_Simulated ==
    /\ pc = "done"
    /\ DateVariant
    /\ "corpus_values" \in DOMAIN frame
    /\ Leq(Zero, self.current_balance)
    /\ Leq(Zero, self.monthly_contribution)
    /\ Leq(Zero, self.annual_increase_rate)
    /\ Leq(Zero, self.annuity_ratio)
    /\ Leq(self.annuity_ratio, One)
    /\ Leq(Num(-1), self.annual_return_rate)

\* C14 as stated: with monthly_contribution >= 0 and annual_return_rate
\* >= -1 the corpus never goes down from one month to the next
C14_Original ==
    C14_Simulated =>
        \A m \in 1..frame.months_to_retirement :
            Leq(frame.corpus_values[m - 1], frame.corpus_values[m])

\* C14 (amended): with monthly_contribution >= 0 and annual_return_rate
\* >= -1 the corpus does not go down in month m exactly when the
\* contribution of month m covers the month's loss
\* corpus[m-1] * (-annual_return_rate / 12); with annual_return_rate >= 0
\* there is no loss and the corpus never goes down
C14_MonotoneUnlessLoss ==
    C14_Simulated =>
        /\ \A m \in 1..frame.months_to_retirement :
               Leq(frame.corpus_values[m - 1], frame.corpus_values[m])
                   <=> Leq(Mul(frame.corpus_values[m - 1],
                               Neg(Div(self.annual_return_rate, Num(12)))),
                           ExpectedContribution(m))
        /\ Leq(Zero, self.annual_return_rate) =>
               \A m \in 1..frame.months_to_retirement :
                   Leq(frame.corpus_values[m - 1], frame.corpus_values[m])

C14_Witness ==
    /\ C14_Simulated
    /\ self.annual_return_rate = <<-3, 5>>
    /\ self.current_balance = One
    /\ self.monthly_contribution = Zero
    /\ frame.months_to_retirement >= 2
    /\ frame.corpus_values[1] = <<19, 20>>
    /\ frame.corpus_values[2] = <<361, 400>>

\* the amounts and the ratio are within the ranges of the data model
AmountsInRange ==
    /\ Leq(Zero, self.current_balance)
    /\ Leq(Zero, self.monthly_contribution)
    /\ Leq(Zero, self.annuity_ratio)
    /\ Leq(self.annuity_ratio, One)

\* the corpus after m months as the recurrence gives it from the instance's
\* present input fields
RECURSIVE ExpectedCorpus(_)
ExpectedCorpus(m) ==
    IF m = 0 THEN self.current_balance
    ELSE Add(Mul(ExpectedCorpus(m - 1),
                 Add(One, Div(self.annual_return_rate, Num(12)))),
             ExpectedContribution(m))

\* C15: whatever fields were assigned and however often compute() was
\* called, when a compute() call has returned the stored results are those
\* of the instance's present input fields: the month count, the final
\* corpus and yearly trajectory, the split, the pension and the amount
\* invested
C15_NoStaleResults ==
    (DateVariant /\ pc = "done" /\ AmountsInRange) =>
        LET M == MonthsToRetirement(
                     RetirementDate(self.birth_date, self.retirement_age),
                     self.current_date)
            contributions == [i \in 0..(M - 1) |-> ExpectedContribution(i + 1)]
        IN  /\ self.months = M
            /\ self.total_corpus = ExpectedCorpus(M)
            /\ Len(self.yearly_data) = (M + 11) \div 12
            /\ self.yearly_data[Len(self.yearly_data)][2] = ExpectedCorpus(M)
            /\ self.annuity_corpus = Mul(ExpectedCorpus(M), self.annuity_ratio)
            /\ self.lump_sum =
                   Mul(ExpectedCorpus(M), Sub(One, self.annuity_ratio))
            /\ Mul(self.monthly_pension, Num(12)) =
                   Mul(Mul(ExpectedCorpus(M), self.annuity_ratio),
                       self.annuity_rate)
            /\ self.total_invested =
                   Add(self.current_balance, SumRange(contributions, 0, M))

\* C17: a negative current_balance, a negative monthly_contribution or an
\* annuity_ratio outside [0, 1] makes the engine raise before any
\* simulation step: once compute() has been entered with such inputs it has
\* raised (whatever the error is called) and has set up no corpus
C17_RejectsInvalid ==
    (/\ DateVariant
     /\ pc \in {"contributions", "loop", "done", "raised"}
     /\ ~AmountsInRange) =>
        /\ pc = "raised"
        /\ raised # "none"
        /\ "corpus_values" \notin DOMAIN frame

\* C16: for every day 1..31, month 1..12 and year of the inputs, building
\* birth_date raises nothing, and the date built is the year and month
\* entered with the day entered if that day exists in the month, else with
\* the nearest day that does, the month's last (29 February in a leap year)
C16_ClampedToNearest ==
    pc \in {"collected", "raised"} =>
        /\ pc = "collected"
        /\ raised = "none"
        /\ frame.birth_date =
               <<frame.dob_year, frame.dob_month,
                 Min(frame.dob_day,
                     ExpectedLastDay(frame.dob_year, frame.dob_month))>>

MonthIndex(date) == date[1] * 12 + date[2]

\* the snapshots of a trajectory are in strictly increasing month order
StrictlyLater(data) ==
    \A i \in 1..(Len(data) - 1) :
        MonthIndex(data[i][1]) < MonthIndex(data[i + 1][1])

\* where a snapshot stands in a trajectory (0: nowhere)
Position(data, snapshot) ==
    IF \E j \in 1..Len(data) : data[j] = snapshot
    THEN CHOOSE j \in 1..Len(data) : data[j] = snapshot
    ELSE 0

\* C21: after a successful compute every (date, value) pair of yearly_data
\* is in monthly_data, in the same relative order; both run in strictly
\* increasing month order and both end with the snapshot of the final
\* month, which holds total_corpus
C21_YearlyWithinMonthly ==
    (DateVariant /\ pc = "done") =>
        LET yearly == self.yearly_data
            monthly == self.monthly_data
        IN  /\ \A i \in 1..Len(yearly) : Position(monthly, yearly[i]) > 0
            /\ \A i \in 1..(Len(yearly) - 1) :
                   Position(monthly, yearly[i]) < Position(monthly, yearly[i + 1])
            /\ StrictlyLater(yearly)
            /\ StrictlyLater(monthly)
            /\ Len(yearly) > 0
            /\ yearly[Len(yearly)] = monthly[Len(monthly)]
            /\ yearly[Len(yearly)][2] = self.total_corpus
            /\ MonthIndex(yearly[Len(yearly)][1]) =
                   MonthIndex(self.current_date) + self.months

C21_Witness ==
    /\ pc = "done"
    /\ DateVariant
    /\ self.months = 26
    /\ Len(self.yearly_data) = 3
    /\ Len(self.monthly_data) = 9
    /\ Position(self.monthly_data, self.yearly_data[2]) = 8
    /\ Position(self.monthly_data, self.yearly_data[3]) = 9

\* C22: after a successful compute monthly_data holds one snapshot for
\* every simulated month 1..months_to_retirement, the m-th being the
\* corpus of month m
C22_EveryMonthRecorded ==
    (DateVariant /\ pc = "done") =>
        /\ Len(self.monthly_data) = self.months
        /\ \A m \in 1..Len(self.monthly_data) :
               self.monthly_data[m][2] = frame.corpus_values[m]

\* C23: for every birth date, as-of date and retirement age the month
\* count months_to_retirement and the year count
\* 12 * (retirement_age - current_age) of the inflation exponent differ by
\* at most 12 months
C23_CountsWithinAYear ==
    Dated =>
        Abs(frame.months_to_retirement
                - 12 * (self.retirement_age - self.current_age)) <= 12

C23_Witness ==
    /\ Dated
    /\ pc = "done"
    /\ self.birth_date[2] = self.current_date[2]
    /\ self.birth_date[3] > self.current_date[3]
    /\ frame.months_to_retirement = 12
    /\ 12 * (self.retirement_age - self.current_age) = 24

\* C28: whenever compute succeeds (months_to_retirement > 0) the inflation
\* exponent retirement_age - current_age is at least 1, and in v2, with
\* inflation_rate >= 0 and a non-negative pension, real_monthly_pension <=
\* monthly_pension
C28_ExponentAtLeastOne ==
    (Dated /\ frame.months_to_retirement > 0) =>
        /\ self.retirement_age - self.current_age >= 1
        /\ (/\ variant = "v2"
            /\ pc = "done"
            /\ Leq(Zero, self.inflation_rate)
            /\ Leq(Zero, self.monthly_pension)) =>
               Leq(self.real_monthly_pension, self.monthly_pension)

C28_Witness ==
    /\ variant = "v2"
    /\ pc = "done"
    /\ frame.months_to_retirement = 1
    /\ self.retirement_age - self.current_age = 1
    /\ self.inflation_rate = <<1, 10>>
    /\ self.monthly_pension # Zero
    /\ Mul(self.real_monthly_pension, <<11, 10>>) = self.monthly_pension

\* the attributes compute() assigns after its already-retired check
DerivedNames ==
    {"months", "years", "monthly_rate", "total_corpus", "retirement_date",
     "annuity_corpus", "lump_sum", "monthly_pension", "total_invested",
     "growth"}

\* C24: the step of compute() that raises the already-retired error leaves
\* the instance as the constructor made it: every attribute keeps its value
\* and none of months, years, monthly_rate, total_corpus, retirement_date,
\* annuity_corpus, lump_sum, monthly_pension, total_invested, growth exists
C24_RaiseAssignsNothing ==
    [][(DateVariant /\ pc = "compute" /\ pc' = "raised"
            /\ raised' = "ValueError")
        => /\ self' = self
           /\ DOMAIN self' \cap DerivedNames = {}
           /\ self'.yearly_data = <<>>
           /\ self'.monthly_data = <<>>]_vars

C24_Witness ==
    /\ DateVariant
    /\ pc = "raised"
    /\ raised = "ValueError"
    /\ frame.months_to_retirement <= 0
    /\ DOMAIN self \cap DerivedNames = {}
    /\ self.monthly_contribution # Zero
    /\ self.yearly_data = <<>>

\* the month-by-month simulation of the birth-date variants run with the
\* slider's constant contribution: the array corpus_values[0..m], entry i
\* at position i + 1, each entry CorpusStep of the one before
RECURSIVE SimulatedValues(_)
SimulatedValues(m) ==
    IF m = 0 THEN <<self.current_balance>>
    ELSE LET corpus_values == SimulatedValues(m - 1)
         IN  Append(corpus_values,
                    CorpusStep(corpus_values[m],
                               MonthlyRate(self.annual_return_rate),
                               self.monthly_contribution))

SimulatedCorpus(m) == SimulatedValues(m)[m + 1]

\* C25: the slider's total_corpus equals the corpus the monthly recurrence
\* corpus[m] = corpus[m-1] * (1 + R/12) + monthly_contribution reaches from
\* corpus[0] = current_balance after 12 * (retirement_age - current_age)
\* months, whatever the balance
C25_SliderMatchesRecurrence ==
    (variant = "slider" /\ pc = "done")
        => self.total_corpus = SimulatedCorpus(self.months)

\* C30: the variant that fills the contribution array first and the variant
\* that escalates inside the loop produce the same corpus: in either, month
\* 0 holds the balance and month m adds to the grown corpus of month m - 1
\* the one contribution ExpectedContribution(m), total_corpus is the last
\* month, yearly_data holds the months 12, 24, .. and the last, and
\* monthly_data the months 3, 6, .. and the last, each dated in the m-th
\* month after the as-of date
C30_VariantsAgree ==
    (DateVariant /\ pc = "done") =>
        LET M == frame.months_to_retirement
            corpus_values == frame.corpus_values
            yearly_data == self.yearly_data
            monthly_data == self.monthly_data
        IN  /\ corpus_values[0] = self.current_balance
            /\ \A m \in 1..M :
                   corpus_values[m] =
                       CorpusStep(corpus_values[m - 1],
                                  MonthlyRate(self.annual_return_rate),
                                  ExpectedContribution(m))
            /\ self.total_corpus = corpus_values[M]
            /\ Len(yearly_data) = (M + 11) \div 12
            /\ \A k \in 1..Len(yearly_data) :
                   /\ yearly_data[k][2] = corpus_values[Min(12 * k, M)]
                   /\ MonthIndex(yearly_data[k][1]) =
                          MonthIndex(self.current_date) + Min(12 * k, M)
            /\ Len(monthly_data) = (M + 2) \div 3
            /\ \A k \in 1..Len(monthly_data) :
                   /\ monthly_data[k][2] = corpus_values[Min(3 * k, M)]
                   /\ MonthIndex(monthly_data[k][1]) =
                          MonthIndex(self.current_date) + Min(3 * k, M)

\* the copy has escalated twice inside its loop
C30_Witness ==
    /\ variant = "copy"
    /\ pc = "done"
    /\ self.months = 26
    /\ self.annual_increase_rate = <<1, 2>>
    /\ self.monthly_contribution = Num(4)
    /\ frame.monthly = Num(9)
    /\ frame.corpus_values[26] = Add(frame.corpus_values[25], Num(9))

\* the month at which the snapshot shown in row j of the table was taken
RowMonth(j) ==
    Min(12 * TableIndices(frame.show_all_years, Len(self.yearly_data))[j],
        self.months)

\* the contribution the simulation added to the corpus in month m
AddedInMonth(m) ==
    IF variant = "v2" THEN frame.monthly_contributions[m - 1]
    ELSE ExpectedContribution(m)

\* C26: every row of the detailed table shows, as its monthly contribution,
\* the contribution the simulation added to the corpus in the month the
\* row's yearly snapshot was taken
C26_TableShowsSimulatedContribution ==
    (DateVariant /\ pc = "tabled") =>
        \A j \in 1..Len(frame.table_data) :
            frame.table_data[j].MonthlyContribution =
                Format2(AddedInMonth(RowMonth(j)))

\* C27: in the form flow of v2, once the pre-check has let the submission
\* through (retirement_age above the whole-year age today), the month count
\* compute() evaluates is positive and the constructor does not raise the
\* already-retired error
C27_PreCheckExcludesRaise ==
    (/\ variant = "v2"
     /\ Dated
     /\ self.retirement_age > self.current_age) =>
        /\ frame.months_to_retirement > 0
        /\ pc \notin {"raised", "error_shown"}

\* C29: whatever compute() calls on other instances come between the calls
\* on this one, the instance holds one trajectory: yearly_data has
\* ceil(months / 12) snapshots and monthly_data one per month that is a
\* multiple of 3 or the last
C29_OneTrajectory ==
    (DateVariant /\ pc = "done" /\ AmountsInRange) =>
        /\ Len(self.yearly_data) = (self.months + 11) \div 12
        /\ Len(self.monthly_data) = (self.months + 2) \div 3

====
